---- MODULE Spec2Model ----
(***************************************************************************)
(* A model of sudoku.py: the backtracking Sudoku solver (solve and its     *)
(* helpers) and the batch driver (parse_input, main).                      *)
(*                                                                         *)
(* Python lists and strings are modelled as sequences; a puzzle is a       *)
(* sequence of one-character strings, field f of the code is element f+1.  *)
(* The working grid "solution" is a function on 0..80 as in the code.      *)
(* Python sets are TLA+ sets; the order in which the runtime iterates a    *)
(* set is not fixed by the source, so the model draws one of a few         *)
(* iteration orders per run (set_order for the set of unsolved fields,     *)
(* list_order for list(candidates)).                                       *)
(***************************************************************************)
EXTENDS Integers, Sequences, FiniteSets, TLC

VARIABLES
    mode,               \* "solve": solve(puzzle) is called directly; "main": main() runs a batch
    sudoku_collection,  \* the grids of the batch, in input order
    cur,                \* index (1-based) of the puzzle being solved
    pc,                 \* "parse" | "solve" | "seed" | "search" | "returned" | "raised" | "exit"
    field,              \* the enumerate() index of _init_fields
    row_chances, column_chances, box_chances, unsolved_fields, solution,
    stack,              \* the active _solve frames: [positions, candidates, i], each with
                        \* "entered", the store as it was when the frame was entered
                        \* (a history value: the code keeps no such copy)
    ret,                \* "call" | "loop" | "true" | "false": where the innermost _solve stands
    error,              \* the exception that ended the run, "none" otherwise
    message,            \* the puzzle text carried by the exception (<<>> when none)
    result,             \* what solve returned (<<>> before it returns)
    printed,            \* main's output: the solved grids printed so far
    set_order,          \* iteration order of the set unsolved_fields in this run
    list_order          \* iteration order of a set of candidate digits in this run

vars == <<mode, sudoku_collection, cur, pc, field, row_chances, column_chances,
          box_chances, unsolved_fields, solution, stack, ret, error, message,
          result, printed, set_order, list_order>>

store == <<row_chances, column_chances, box_chances, unsolved_fields, solution>>

-----------------------------------------------------------------------------
(* Characters and conversions                                              *)

\* the string '0123456789' of _verify_grid
DecimalDigits == <<"0", "1", "2", "3", "4", "5", "6", "7", "8", "9">>

IsDecimal(c) == \E i \in DOMAIN DecimalDigits : DecimalDigits[i] = c

\* int(digit) for a one-character string; ValueError on a non-digit is the caller's case
int(c) == (CHOOSE i \in DOMAIN DecimalDigits : DecimalDigits[i] = c) - 1

\* str(d) for d in 0..9
str(d) == DecimalDigits[d + 1]

\* ''.join(map(str, solved))
JoinDigits(solved) == [i \in 1..81 |-> str(solved[i - 1])]

\* _verify_grid: TRUE when it returns the grid, FALSE when it raises ValueError
_verify_grid(encoded_grid) ==
    \A i \in 1..Len(encoded_grid) : IsDecimal(encoded_grid[i])

-----------------------------------------------------------------------------
(* The constraint store                                                    *)

PositionsBoxModulo(f) ==
    <<f \div 9, f % 9, ((f \div 3) % 3) + 3 * ((f \div 9) % 3)>>

_positions(f) ==
    <<f \div 9, f % 9, ((f \div 3) % 3) + 3 * ((f \div 9) \div 3)>>

_all_chances ==
    [row_chances    |-> [u \in 0..8 |-> 1..9],
     column_chances |-> [u \in 0..8 |-> 1..9],
     box_chances    |-> [u \in 0..8 |-> 1..9]]

_all_unsolved == {_positions(f) : f \in 0..80}

\* The five structures a call mutates, with the exception it raised (if any).
Store(rc, cc, bc, uf, sol) ==
    [row_chances |-> rc, column_chances |-> cc, box_chances |-> bc,
     unsolved_fields |-> uf, solution |-> sol, raised |-> "none"]

Raise(st, exc) == [st EXCEPT !.raised = exc]

\* set.remove(x) on chances[unit]: IndexError when the list has no such unit,
\* KeyError when the digit is absent.
RemoveChance(st, family, unit, digit) ==
    IF st.raised # "none" THEN st
    ELSE IF unit \notin DOMAIN st[family] THEN Raise(st, "IndexError")
    ELSE IF digit \notin st[family][unit] THEN Raise(st, "KeyError")
    ELSE [st EXCEPT ![family][unit] = @ \ {digit}]

SetFieldDiscard(st, positions, digit) ==
    LET row == positions[1]
        column == positions[2]
        box == positions[3]
    IN  [st EXCEPT !.row_chances[row] = @ \ {digit},
                   !.column_chances[column] = @ \ {digit},
                   !.box_chances[box] = @ \ {digit},
                   !.unsolved_fields = @ \ {positions},
                   !.solution[row * 9 + column] = digit]

SetFieldNoColumn(st, positions, digit) ==
    LET row == positions[1]
        column == positions[2]
        box == positions[3]
        s1 == RemoveChance(st, "row_chances", row, digit)
        s3 == RemoveChance(s1, "box_chances", box, digit)
        s4 == IF s3.raised # "none" THEN s3
              ELSE IF positions \notin s3.unsolved_fields THEN Raise(s3, "KeyError")
              ELSE [s3 EXCEPT !.unsolved_fields = @ \ {positions}]
        s5 == IF s4.raised # "none" THEN s4
              ELSE IF (row * 9 + column) \notin DOMAIN s4.solution
                   THEN Raise(s4, "IndexError")
              ELSE [s4 EXCEPT !.solution[row * 9 + column] = digit]
    IN  s5

SetFieldTransposed(st, positions, digit) ==
    LET row == positions[1]
        column == positions[2]
        box == positions[3]
        s1 == RemoveChance(st, "row_chances", row, digit)
        s2 == RemoveChance(s1, "column_chances", column, digit)
        s3 == RemoveChance(s2, "box_chances", box, digit)
        s4 == IF s3.raised # "none" THEN s3
              ELSE IF positions \notin s3.unsolved_fields THEN Raise(s3, "KeyError")
              ELSE [s3 EXCEPT !.unsolved_fields = @ \ {positions}]
        s5 == IF s4.raised # "none" THEN s4
              ELSE IF (column * 9 + row) \notin DOMAIN s4.solution
                   THEN Raise(s4, "IndexError")
              ELSE [s4 EXCEPT !.solution[column * 9 + row] = digit]
    IN  s5

\* The statements run in order; the first that raises leaves the earlier
\* removals in place.
_set_field(st, positions, digit) ==
    LET row == positions[1]
        column == positions[2]
        box == positions[3]
        s1 == RemoveChance(st, "row_chances", row, digit)
        s2 == RemoveChance(s1, "column_chances", column, digit)
        s3 == RemoveChance(s2, "box_chances", box, digit)
        s4 == IF s3.raised # "none" THEN s3
              ELSE IF positions \notin s3.unsolved_fields THEN Raise(s3, "KeyError")
              ELSE [s3 EXCEPT !.unsolved_fields = @ \ {positions}]
        s5 == IF s4.raised # "none" THEN s4
              ELSE IF (row * 9 + column) \notin DOMAIN s4.solution
                   THEN Raise(s4, "IndexError")
              ELSE [s4 EXCEPT !.solution[row * 9 + column] = digit]
    IN  s5

ResetFieldNoBox(st, positions, digit) ==
    LET row == positions[1]
        column == positions[2]
    IN  [st EXCEPT !.row_chances[row] = @ \cup {digit},
                   !.column_chances[column] = @ \cup {digit},
                   !.unsolved_fields = @ \cup {positions},
                   !.solution[row * 9 + column] = 0]

ResetFieldKeepSolved(st, positions, digit) ==
    LET row == positions[1]
        column == positions[2]
        box == positions[3]
    IN  [st EXCEPT !.row_chances[row] = @ \cup {digit},
                   !.column_chances[column] = @ \cup {digit},
                   !.box_chances[box] = @ \cup {digit},
                   !.solution[row * 9 + column] = 0]

ResetFieldNoColumn(st, positions, digit) ==
    LET row == positions[1]
        column == positions[2]
        box == positions[3]
    IN  [st EXCEPT !.row_chances[row] = @ \cup {digit},
                   !.box_chances[box] = @ \cup {digit},
                   !.unsolved_fields = @ \cup {positions},
                   !.solution[row * 9 + column] = 0]

ResetFieldKeepDigit(st, positions, digit) ==
    LET row == positions[1]
        column == positions[2]
        box == positions[3]
    IN  [st EXCEPT !.row_chances[row] = @ \cup {digit},
                   !.column_chances[column] = @ \cup {digit},
                   !.box_chances[box] = @ \cup {digit},
                   !.unsolved_fields = @ \cup {positions}]

_reset_field(st, positions, digit) ==
    LET row == positions[1]
        column == positions[2]
        box == positions[3]
    IN  [st EXCEPT !.row_chances[row] = @ \cup {digit},
                   !.column_chances[column] = @ \cup {digit},
                   !.box_chances[box] = @ \cup {digit},
                   !.unsolved_fields = @ \cup {positions},
                   !.solution[row * 9 + column] = 0]

-----------------------------------------------------------------------------
(* Iteration orders of the runtime's sets                                  *)

SetOrders == {"ascending", "descending", "columns"}
ListOrders == {"ascending", "descending"}

\* The k-th field (k in 1..81) the runtime visits under order o.
FieldAt(o, k) ==
    IF o = "ascending" THEN k - 1
    ELSE IF o = "descending" THEN 81 - k
    ELSE ((k - 1) % 9) * 9 + ((k - 1) \div 9)

\* for row, column, box in unsolved_fields: the members in the order visited
Iterate(uf, o) ==
    SelectSeq([k \in 1..81 |-> _positions(FieldAt(o, k))], LAMBDA p : p \in uf)

\* list(candidates)
list(candidates, o) ==
    SelectSeq([k \in 1..9 |-> IF o = "ascending" THEN k ELSE 10 - k],
              LAMBDA d : d \in candidates)

-----------------------------------------------------------------------------
(* Selection                                                               *)

None == <<>>

ChooseLoopNoBox(rc, cc, bc, scan, lo) ==
    LET candidates == [k \in 1..Len(scan) |->
                          rc[scan[k][1]] \cap cc[scan[k][2]]]
        count == [k \in 1..Len(scan) |-> Cardinality(candidates[k])]
        returning == {k \in 1..Len(scan) : count[k] < 2}
        assigning == {k \in 1..Len(scan) :
                         count[k] < 9 /\ \A j \in 1..(k - 1) : count[k] < count[j]}
        first == CHOOSE k \in returning : \A j \in returning : k <= j
        last == CHOOSE k \in assigning : \A j \in assigning : j <= k
    IN  IF returning # {} THEN <<scan[first], list(candidates[first], lo)>>
        ELSE IF assigning = {} THEN None
        ELSE <<scan[last], list(candidates[last], lo)>>

\* The for loop of _choose_next_unsolved over scan, the unsolved positions in
\* the order the runtime visits them. count[k] is len(candidates) in iteration
\* k. The loop returns in the first iteration whose count is below 2 (lines
\* 122-123). Otherwise least_candidates_so_far, which starts at 9, is the
\* smallest count met so far, so the assignment of lines 125-126 runs in
\* exactly the iterations whose count is below 9 and below every earlier
\* count; best_field is what the last of them assigned, or still None.
ChooseLoop(rc, cc, bc, scan, lo) ==
    LET candidates == [k \in 1..Len(scan) |->
                          rc[scan[k][1]] \cap cc[scan[k][2]] \cap bc[scan[k][3]]]
        count == [k \in 1..Len(scan) |-> Cardinality(candidates[k])]
        returning == {k \in 1..Len(scan) : count[k] < 2}
        assigning == {k \in 1..Len(scan) :
                         count[k] < 9 /\ \A j \in 1..(k - 1) : count[k] < count[j]}
        first == CHOOSE k \in returning : \A j \in returning : k <= j
        last == CHOOSE k \in assigning : \A j \in assigning : j <= k
    IN  IF returning # {} THEN <<scan[first], list(candidates[first], lo)>>
        ELSE IF assigning = {} THEN None
        ELSE <<scan[last], list(candidates[last], lo)>>

_choose_next_unsolved(rc, cc, bc, uf, so, lo) ==
    ChooseLoop(rc, cc, bc, Iterate(uf, so), lo)

-----------------------------------------------------------------------------
(* Input puzzles                                                           *)

\* how many cells of BlankList a generated puzzle may leave blank
NumBlank == 5
\* the longest batch main() is run on
MaxBatch == 2

\* a completed grid, and well-known puzzles that complete to it
Solved ==
    <<4, 8, 3, 9, 2, 1, 6, 5, 7>> \o
    <<9, 6, 7, 3, 4, 5, 8, 2, 1>> \o
    <<2, 5, 1, 8, 7, 6, 4, 9, 3>> \o
    <<5, 4, 8, 1, 3, 2, 9, 7, 6>> \o
    <<7, 2, 9, 5, 6, 4, 1, 3, 8>> \o
    <<1, 3, 6, 7, 9, 8, 2, 4, 5>> \o
    <<3, 7, 2, 6, 8, 9, 5, 1, 4>> \o
    <<8, 1, 4, 2, 5, 3, 7, 6, 9>> \o
    <<6, 9, 5, 4, 1, 7, 3, 8, 2>>

ClassicDigits ==
    <<0, 0, 3, 0, 2, 0, 6, 0, 0>> \o
    <<9, 0, 0, 3, 0, 5, 0, 0, 1>> \o
    <<0, 0, 1, 8, 0, 6, 4, 0, 0>> \o
    <<0, 0, 8, 1, 0, 2, 9, 0, 0>> \o
    <<7, 0, 0, 0, 0, 0, 0, 0, 8>> \o
    <<0, 0, 6, 7, 0, 8, 2, 0, 0>> \o
    <<0, 0, 2, 6, 0, 9, 5, 0, 0>> \o
    <<8, 0, 0, 2, 0, 3, 0, 0, 9>> \o
    <<0, 0, 5, 0, 1, 0, 3, 0, 0>>

\* the text of a grid of digits
Text(g) == [i \in 1..Len(g) |-> str(g[i])]

\* puzzle p with the fields of B set to '0', and with field f set to character c
Blank(p, B) == [i \in 1..Len(p) |-> IF (i - 1) \in B THEN "0" ELSE p[i]]
Put(p, f, c) == [p EXCEPT ![f + 1] = c]

Classic == Text(ClassicDigits)
\* Classic with four more cells blank: one completion, not reachable by forced moves alone
Hard  == Blank(Classic, {4, 24, 29, 74})
\* Hard with two more cells blank: several completions
Multi == Blank(Hard, {17, 30})
Empty == [i \in 1..81 |-> "0"]

\* cells of Solved that generated puzzles leave blank; the first four form a
\* rectangle whose two digits can be swapped
BlankList == <<68, 69, 77, 78, 40, 0, 80>>
BlankSets == SUBSET {BlankList[i] : i \in 1..NumBlank}

NearFull == {Blank(Text(Solved), B) : B \in BlankSets}

Overrides == {<<68, "7">>, <<0, "8">>, <<40, ".">>, <<40, "x">>}
Overridden == {Put(p, o[1], o[2]) : p \in NearFull, o \in Overrides}

Lengths ==
    {SubSeq(p, 1, 80) : p \in NearFull \cup {Empty}}
    \cup {p \o <<c>> : p \in NearFull, c \in {"0", "5"}}

Specials ==
    {Classic, Hard, Multi, Empty, [i \in 1..81 |-> "."]}
    \cup {Put(Hard, 80, str(d)) : d \in 1..9}

Inputs == NearFull \cup Overridden \cup Lengths \cup Specials

\* what main() is run on: a solvable grid, conflicting givens, an unsolvable
\* grid, a grid with a non-digit, the empty grid
BatchPuzzles ==
    {Blank(Text(Solved), {68}), Put(Text(Solved), 0, "8"), Put(Hard, 80, "4"),
     Put(Text(Solved), 40, "x"), Empty}

Batches == UNION {[1..n -> BatchPuzzles] : n \in 0..MaxBatch}

-----------------------------------------------------------------------------
(* The program                                                             *)

\* the argument of the running solve call
puzzle == sudoku_collection[cur]

Init ==
    /\ \/ mode = "solve" /\ pc = "solve" /\ cur = 1
          /\ sudoku_collection \in {<<p>> : p \in Inputs}
       \/ mode = "main" /\ pc = "parse" /\ cur = 0
          /\ sudoku_collection \in Batches
    /\ field = 0
    /\ row_chances = _all_chances.row_chances
    /\ column_chances = _all_chances.column_chances
    /\ box_chances = _all_chances.box_chances
    /\ unsolved_fields = _all_unsolved
    /\ solution = [f \in 0..80 |-> 0]
    /\ stack = <<>>
    /\ ret = "call"
    /\ error = "none"
    /\ message = <<>>
    /\ result = <<>>
    /\ printed = <<>>
    /\ set_order = "unset"
    /\ list_order = "unset"

\* the store after a call st = _set_field(...) / _reset_field(...)
Assign(st) ==
    /\ row_chances' = st.row_chances
    /\ column_chances' = st.column_chances
    /\ box_chances' = st.box_chances
    /\ unsolved_fields' = st.unsolved_fields
    /\ solution' = st.solution

Current == Store(row_chances, column_chances, box_chances, unsolved_fields, solution)

\* an exception leaves solve (and, uncaught, main)
Throw(exc, msg) ==
    /\ pc' = "raised"
    /\ error' = exc
    /\ message' = msg

\* parse_input: every grid line goes through _verify_grid, and so does the
\* joined grid in Sudoku.__init__; then main starts its loop.
ParseInput ==
    /\ pc = "parse"
    /\ IF \A i \in 1..Len(sudoku_collection) : _verify_grid(sudoku_collection[i])
       THEN /\ pc' = IF Len(sudoku_collection) = 0 THEN "exit" ELSE "solve"
            /\ cur' = IF Len(sudoku_collection) = 0 THEN cur ELSE 1
            /\ UNCHANGED <<error, message>>
       ELSE /\ Throw("ValueError:grid", <<>>)
            /\ UNCHANGED cur
    /\ UNCHANGED <<mode, sudoku_collection, field, store, stack, ret, result,
                   printed, set_order, list_order>>

\* solve, lines 39-41: fresh candidate sets and unsolved set, _init_fields starts
CallSolve ==
    /\ pc = "solve"
    /\ pc' = "seed"
    /\ field' = 0
    /\ row_chances' = _all_chances.row_chances
    /\ column_chances' = _all_chances.column_chances
    /\ box_chances' = _all_chances.box_chances
    /\ unsolved_fields' = _all_unsolved
    /\ solution' = [f \in 0..80 |-> 0]
    /\ stack' = <<>>
    /\ ret' = "call"
    /\ result' = <<>>
    /\ UNCHANGED <<mode, sudoku_collection, cur, error, message, printed,
                   set_order, list_order>>

\* one iteration of the enumerate loop of _init_fields
InitFieldsStep ==
    /\ pc = "seed"
    /\ field < Len(puzzle)
    /\ LET digit == puzzle[field + 1]
       IN  IF digit \in {".", "0"}
           THEN /\ field' = field + 1
                /\ UNCHANGED <<pc, error, message, store>>
           ELSE IF ~IsDecimal(digit)
           THEN /\ Throw("ValueError:int", <<>>)
                /\ UNCHANGED <<field, store>>
           ELSE LET st == _set_field(Current, _positions(field), int(digit))
                IN  /\ Assign(st)
                    /\ IF st.raised # "none"
                       THEN Throw(st.raised, <<>>) /\ UNCHANGED field
                       ELSE field' = field + 1 /\ UNCHANGED <<pc, error, message>>
    /\ UNCHANGED <<mode, sudoku_collection, cur, stack, ret, result, printed,
                   set_order, list_order>>

\* _init_fields returns; solve calls _solve (line 42)
InitFieldsReturn ==
    /\ pc = "seed"
    /\ field = Len(puzzle)
    /\ pc' = "search"
    /\ ret' = "call"
    /\ IF set_order = "unset"
       THEN set_order' \in SetOrders /\ list_order' \in ListOrders
       ELSE UNCHANGED <<set_order, list_order>>
    /\ UNCHANGED <<mode, sudoku_collection, cur, field, store, stack, error,
                   message, result, printed>>

\* _solve is entered: lines 131-134
SolveEnter ==
    /\ pc = "search"
    /\ ret = "call"
    /\ IF unsolved_fields = {}
       THEN ret' = "true" /\ UNCHANGED <<pc, stack, error, message>>
       ELSE LET best == _choose_next_unsolved(row_chances, column_chances,
                            box_chances, unsolved_fields, set_order, list_order)
            IN  IF best = None
                THEN Throw("TypeError", <<>>) /\ UNCHANGED <<ret, stack>>
                ELSE /\ stack' = Append(stack, [positions |-> best[1],
                                                candidates |-> best[2], i |-> 1,
                                                entered |-> store])
                     /\ ret' = "loop"
                     /\ UNCHANGED <<pc, error, message>>
    /\ UNCHANGED <<mode, sudoku_collection, cur, field, store, result, printed,
                   set_order, list_order>>

SolveTryLast ==
    /\ pc = "search"
    /\ ret = "loop"
    /\ LET top == stack[Len(stack)]
       IN  IF top.i <= Len(top.candidates)
           THEN LET st == _set_field(Current, top.positions,
                                     top.candidates[Len(top.candidates)])
                IN  /\ Assign(st)
                    /\ IF st.raised # "none"
                       THEN Throw(st.raised, <<>>) /\ UNCHANGED ret
                       ELSE ret' = "call" /\ UNCHANGED <<pc, error, message>>
                    /\ UNCHANGED stack
           ELSE /\ stack' = SubSeq(stack, 1, Len(stack) - 1)
                /\ ret' = "false"
                /\ UNCHANGED <<pc, error, message, store>>
    /\ UNCHANGED <<mode, sudoku_collection, cur, field, result, printed,
                   set_order, list_order>>

\* the for loop of _solve takes its next candidate and places it (lines
\* 135-143), or is exhausted and the frame returns False (line 152)
SolveTry ==
    /\ pc = "search"
    /\ ret = "loop"
    /\ LET top == stack[Len(stack)]
       IN  IF top.i <= Len(top.candidates)
           THEN LET st == _set_field(Current, top.positions, top.candidates[top.i])
                IN  /\ Assign(st)
                    /\ IF st.raised # "none"
                       THEN Throw(st.raised, <<>>) /\ UNCHANGED ret
                       ELSE ret' = "call" /\ UNCHANGED <<pc, error, message>>
                    /\ UNCHANGED stack
           ELSE /\ stack' = SubSeq(stack, 1, Len(stack) - 1)
                /\ ret' = "false"
                /\ UNCHANGED <<pc, error, message, store>>
    /\ UNCHANGED <<mode, sudoku_collection, cur, field, result, printed,
                   set_order, list_order>>

SolveBackNoRetry ==
    /\ pc = "search"
    /\ ret \in {"true", "false"}
    /\ stack # <<>>
    /\ LET top == stack[Len(stack)]
       IN  IF ret = "true"
           THEN /\ stack' = SubSeq(stack, 1, Len(stack) - 1)
                /\ UNCHANGED <<ret, store>>
           ELSE /\ Assign(_reset_field(Current, top.positions, top.candidates[top.i]))
                /\ stack' = [stack EXCEPT ![Len(stack)].i = Len(top.candidates) + 1]
                /\ ret' = "loop"
    /\ UNCHANGED <<mode, sudoku_collection, cur, pc, field, error, message,
                   result, printed, set_order, list_order>>

SolveBackNoReset ==
    /\ pc = "search"
    /\ ret \in {"true", "false"}
    /\ stack # <<>>
    /\ IF ret = "true"
       THEN /\ stack' = SubSeq(stack, 1, Len(stack) - 1)
            /\ UNCHANGED <<ret, store>>
       ELSE /\ stack' = [stack EXCEPT ![Len(stack)].i = @ + 1]
            /\ ret' = "loop"
            /\ UNCHANGED store
    /\ UNCHANGED <<mode, sudoku_collection, cur, pc, field, error, message,
                   result, printed, set_order, list_order>>

\* the recursive call of line 143 has returned to the frame on top of the
\* stack: True is passed up, False undoes the placement and continues the loop
SolveBack ==
    /\ pc = "search"
    /\ ret \in {"true", "false"}
    /\ stack # <<>>
    /\ LET top == stack[Len(stack)]
       IN  IF ret = "true"
           THEN /\ stack' = SubSeq(stack, 1, Len(stack) - 1)
                /\ UNCHANGED <<ret, store>>
           ELSE /\ Assign(_reset_field(Current, top.positions, top.candidates[top.i]))
                /\ stack' = [stack EXCEPT ![Len(stack)].i = @ + 1]
                /\ ret' = "loop"
    /\ UNCHANGED <<mode, sudoku_collection, cur, pc, field, error, message,
                   result, printed, set_order, list_order>>

\* the outermost _solve has returned to solve: lines 42-44
SolveFinish ==
    /\ pc = "search"
    /\ ret \in {"true", "false"}
    /\ stack = <<>>
    /\ IF ret = "false"
       THEN Throw("ValueError:unsolvable", puzzle) /\ UNCHANGED result
       ELSE /\ pc' = "returned"
            /\ result' = JoinDigits(solution)
            /\ UNCHANGED <<error, message>>
    /\ UNCHANGED <<mode, sudoku_collection, cur, field, store, stack, ret,
                   printed, set_order, list_order>>

\* main, lines 170-172: the solved grid is printed, the loop goes on
PrintSolved ==
    /\ pc = "returned"
    /\ mode = "main"
    /\ printed' = Append(printed, result)
    /\ IF cur < Len(sudoku_collection)
       THEN cur' = cur + 1 /\ pc' = "solve"
       ELSE pc' = "exit" /\ UNCHANGED cur
    /\ UNCHANGED <<mode, sudoku_collection, field, store, stack, ret, error,
                   message, result, set_order, list_order>>

Next ==
    \/ ParseInput
    \/ CallSolve
    \/ InitFieldsStep
    \/ InitFieldsReturn
    \/ SolveEnter
    \/ SolveTry
    \/ SolveBack
    \/ SolveFinish
    \/ PrintSolved

Spec == Init /\ [][Next]_vars

\* The runs on the sparse puzzles, on a seeding that fails half way through a
\* place, and on puzzles of 80 and 82 characters, with one batch for main:
\* the stores of the program without the many near-complete grids of Inputs.
StoreInputs ==
    Specials \cup {Put(Blank(Text(Solved), {69}), 68, "7"),
                   Blank(Text(Solved), {68, 69, 77, 78}) \o <<"5">>,
                   SubSeq(Blank(Text(Solved), {40}), 1, 80)}

StoreBatches == {<<Blank(Text(Solved), {68}), Put(Text(Solved), 0, "8")>>}

StoreInit ==
    /\ \/ mode = "solve" /\ pc = "solve" /\ cur = 1
          /\ sudoku_collection \in {<<p>> : p \in StoreInputs}
       \/ mode = "main" /\ pc = "parse" /\ cur = 0
          /\ sudoku_collection \in StoreBatches
    /\ field = 0
    /\ row_chances = _all_chances.row_chances
    /\ column_chances = _all_chances.column_chances
    /\ box_chances = _all_chances.box_chances
    /\ unsolved_fields = _all_unsolved
    /\ solution = [f \in 0..80 |-> 0]
    /\ stack = <<>>
    /\ ret = "call"
    /\ error = "none"
    /\ message = <<>>
    /\ result = <<>>
    /\ printed = <<>>
    /\ set_order = "unset"
    /\ list_order = "unset"

StoreSpec == StoreInit /\ [][Next]_vars

-----------------------------------------------------------------------------
(* Sudoku, stated on the grid itself                                       *)

Row(f) == f \div 9
Col(f) == f % 9
Box(f) == 3 * (Row(f) \div 3) + (Col(f) \div 3)

Units ==
    {{f \in 0..80 : Row(f) = u} : u \in 0..8}
    \cup {{f \in 0..80 : Col(f) = u} : u \in 0..8}
    \cup {{f \in 0..80 : Box(f) = u} : u \in 0..8}

Peers == [f \in 0..80 |->
            {h \in 0..80 : h # f /\ (Row(h) = Row(f) \/ Col(h) = Col(f) \/ Box(h) = Box(f))}]

\* g: 0..80 -> 0..9 holds each digit exactly once in every row, column and box
ValidGrid(g) ==
    \A U \in Units : \A d \in 1..9 : Cardinality({f \in U : g[f] = d}) = 1

\* an 81-character text of digits 1..9 that is a valid grid
ValidText(t) ==
    /\ Len(t) = 81
    /\ \A i \in 1..81 : IsDecimal(t[i]) /\ t[i] # "0"
    /\ ValidGrid([f \in 0..80 |-> int(t[f + 1])])

\* the character is a given: one of '1'..'9'
IsGiven(c) == IsDecimal(c) /\ c # "0"

GivenFields(p) == {f \in 0..80 : f < Len(p) /\ IsGiven(p[f + 1])}

\* the givens of a puzzle text as a grid (0 where the puzzle gives nothing)
GivenGrid(p) ==
    [f \in 0..80 |-> IF f < Len(p) /\ IsGiven(p[f + 1]) THEN int(p[f + 1]) ELSE 0]

\* two givens of one row, column or box hold the same digit
Conflicting(p) ==
    \E f \in 0..80 :
        /\ f < Len(p)
        /\ IsGiven(p[f + 1])
        /\ \E h \in Peers[f] : h < Len(p) /\ p[h + 1] = p[f + 1]

WellFormed(p) == Len(p) = 81 /\ \A i \in 1..81 : IsDecimal(p[i])

\* the digits no peer of field f holds in grid g
Legal(g, f) == (1..9) \ {g[h] : h \in Peers[f]}

\* a blank field with the fewest legal digits; n maps every blank field to
\* the number of its legal digits
MostConstrained(n) ==
    CHOOSE f \in DOMAIN n : \A h \in DOMAIN n : n[f] <= n[h]

\* g with every blank field that has exactly one legal digit filled with it
FillForced(g, n) ==
    [f \in 0..80 |-> IF f \in DOMAIN n /\ n[f] = 1
                     THEN CHOOSE d \in Legal(g, f) : TRUE
                     ELSE g[f]]

RECURSIVE Completions(_)
\* the valid grids that extend g: forced digits are filled in, otherwise a
\* most constrained blank field takes each of its legal digits in turn
Completions(g) ==
    IF \A h \in 0..80 : g[h] # 0
    THEN IF ValidGrid(g) THEN {g} ELSE {}
    ELSE UNION {IF \E h \in DOMAIN n : n[h] = 0 THEN {}
                ELSE IF \E h \in DOMAIN n : n[h] = 1
                     THEN UNION {Completions(g2) : g2 \in {FillForced(g, n)}}
                     ELSE UNION {UNION {UNION {Completions(g2) :
                                                 g2 \in {[g EXCEPT ![h] = d]}} :
                                          d \in Legal(g, h)} :
                                   h \in {MostConstrained(n)}} :
                  n \in {[h \in {k \in 0..80 : g[k] = 0} |-> Cardinality(Legal(g, h))]}}

\* text p gives nothing that grid k does not hold
Extends(k, p) == \A f \in GivenFields(p) : k[f] = int(p[f + 1])

\* Solved as a grid, and Solved with the two digits of the rectangle of
\* fields 68, 69, 77, 78 swapped: two valid grids
SolvedGrid == [f \in 0..80 |-> Solved[f + 1]]
SwappedGrid ==
    [f \in 0..80 |-> IF f \in {68, 69, 77, 78} THEN 10 - Solved[f + 1] ELSE Solved[f + 1]]

\* the givens of p admit exactly one completion (a text that both grids above
\* extend has two and needs no search to tell)
UniquelyCompletable(p) ==
    /\ ~(/\ ValidGrid(SolvedGrid) /\ Extends(SolvedGrid, p)
         /\ ValidGrid(SwappedGrid) /\ Extends(SwappedGrid, p)
         /\ SolvedGrid # SwappedGrid)
    /\ Cardinality(Completions(GivenGrid(p))) = 1

\* a solve call is under way or has ended
InSolve == cur >= 1 /\ pc \in {"seed", "search", "returned", "raised"}
SolveEnded == cur >= 1 /\ pc \in {"returned", "raised"}

ResultGrid == [f \in 0..80 |-> int(result[f + 1])]

-----------------------------------------------------------------------------
(* Claims                                                                  *)

\* C1 (Validity): whenever solve returns, the returned text has 81 digits,
\* none of them 0, and every row, column and box holds each of 1..9 exactly once.
Validity == pc = "returned" => ValidText(result)

\* C1 witness: solve has returned on the puzzle that needs backtracking
ValidityWitness == pc = "returned" /\ puzzle = Hard /\ ValidText(result)

\* C2 (Fidelity): a returned grid repeats every given of the input; during the
\* search a given's cell is not in the unsolved set, is not the position of
\* any frame, and keeps its digit in the working grid.
Fidelity ==
    /\ pc = "returned" =>
         \A f \in GivenFields(puzzle) : result[f + 1] = puzzle[f + 1]
    /\ (cur >= 1 /\ pc = "search") =>
         \A f \in GivenFields(puzzle) :
            /\ <<Row(f), Col(f), Box(f)>> \notin unsolved_fields
            /\ \A k \in 1..Len(stack) : stack[k].positions # <<Row(f), Col(f), Box(f)>>
            /\ solution[f] = int(puzzle[f + 1])

\* C2 witness: a search that has backtracked deep while givens stay in place
FidelityWitness ==
    /\ pc = "search" /\ puzzle = Multi /\ ret = "false" /\ Len(stack) >= 3
    /\ \A f \in GivenFields(puzzle) : solution[f] = int(puzzle[f + 1])

\* C3 (Empty grid), as claimed: solve on the all-zero grid ends by returning a
\* valid completed grid.
EmptyGridSolved ==
    (SolveEnded /\ puzzle = Empty) => (pc = "returned" /\ ValidText(result))

\* C4 (Unique-solution completeness): when the givens do not conflict and
\* admit exactly one completion, solve ends by returning that completion,
\* under every iteration order.
UniqueSolutionCompleteness ==
    (SolveEnded /\ WellFormed(puzzle) /\ ~Conflicting(puzzle)
       /\ UniquelyCompletable(puzzle))
    => /\ pc = "returned"
       /\ Len(result) = 81
       /\ \A i \in 1..81 : IsDecimal(result[i])
       /\ ResultGrid \in Completions(GivenGrid(puzzle))

\* C4 witness: the unique completion of the puzzle that needs backtracking
UniqueSolutionWitness ==
    /\ pc = "returned" /\ puzzle = Hard /\ set_order = "descending"
    /\ Completions(GivenGrid(puzzle)) = {ResultGrid}

\* C5 (Unsolvability): the "not solvable" failure is raised only when the
\* outermost search call returned False with nothing left on the stack and the
\* givens admit no completion; it carries the input puzzle and no grid is returned.
Unsolvability ==
    (pc = "raised" /\ error = "ValueError:unsolvable")
    => /\ ret = "false" /\ stack = <<>>
       /\ Completions(GivenGrid(puzzle)) = {}
       /\ message = puzzle
       /\ result = <<>>

\* C5 witness: exhaustion after real backtracking on non-conflicting givens
UnsolvabilityWitness ==
    /\ pc = "raised" /\ error = "ValueError:unsolvable"
    /\ puzzle = Put(Hard, 80, "4") /\ ~Conflicting(puzzle)

\* C6 (Conflicting givens): with two equal givens in one unit, solve never
\* finishes seeding: no search step is taken, no frame is pushed, no grid is
\* returned, and the run ends with an exception raised by _init_fields.
ConflictingGivens ==
    (InSolve /\ Conflicting(puzzle))
    => /\ pc \in {"seed", "raised"}
       /\ field < Len(puzzle)
       /\ stack = <<>>
       /\ result = <<>>
       /\ pc = "raised" => error \in {"KeyError", "ValueError:int"}

\* C6 witness: seeding has failed on the second of two equal givens of a column
ConflictingGivensWitness ==
    /\ pc = "raised" /\ error = "KeyError" /\ Conflicting(puzzle)
    /\ \E f \in GivenFields(puzzle) :
          /\ f < field /\ Col(f) = Col(field) /\ Row(f) # Row(field)
          /\ puzzle[f + 1] = puzzle[field + 1]

\* C7 (Invalid character), as claimed: a puzzle with a character outside
\* '0'..'9' handed to solve is never searched or answered, and the call fails
\* with the invalid-grid error.
InvalidCharacterRejected ==
    (InSolve /\ mode = "solve" /\ \E i \in 1..Len(puzzle) : ~IsDecimal(puzzle[i]))
    => /\ pc \notin {"search", "returned"}
       /\ pc = "raised" => error \in {"ValueError:grid", "ValueError:int"}

\* C8 (Invalid length), as claimed: a solve call on a puzzle whose length is
\* not 81 ends with the invalid-grid error, with nothing seeded or searched.
InvalidLengthRejected ==
    (SolveEnded /\ Len(puzzle) # 81)
    => /\ pc = "raised" /\ error = "ValueError:grid"
       /\ solution = [f \in 0..80 |-> 0]
       /\ result = <<>>

\* the puzzle of the batch on which main's run failed: the first grid
\* parse_input rejects, otherwise the puzzle solve raised on
FailedAt ==
    IF cur = 0
    THEN CHOOSE i \in 1..Len(sudoku_collection) :
            /\ ~_verify_grid(sudoku_collection[i])
            /\ \A j \in 1..(i - 1) : _verify_grid(sudoku_collection[j])
    ELSE cur

\* C9 (Batch continuation), as claimed: when main stops, every puzzle that
\* follows a failed one has been solved too.
BatchContinuation ==
    (mode = "main" /\ pc = "raised")
    => \A i \in 1..Len(sudoku_collection) : i > FailedAt => i <= cur

\* the candidates of a position in the current store (line 121)
Candidates(p) == row_chances[p[1]] \cap column_chances[p[2]] \cap box_chances[p[3]]

\* C11 (Place/unplace round trip), under StoreSpec: in every reachable store
\* (also the one a failed place left behind), for every unsolved
\* position p and every digit d among p's candidates, _set_field(p, d) succeeds
\* and changes the store, and _reset_field(p, d) after it gives back exactly the
\* candidate sets, the unsolved set and the working grid from before.
PlaceUnplaceRoundTrip ==
    \A p \in unsolved_fields :
        \A d \in Candidates(p) :
            \A placed \in {_set_field(Current, p, d)} :
                /\ placed.raised = "none"
                /\ placed # Current
                /\ _reset_field(placed, p, d) = Current

\* C11 witness: the search has placed a first candidate and taken it back, and
\* that position and digit are again an unsolved position and one of its candidates
PlaceUnplaceWitness ==
    /\ pc = "search" /\ ret = "loop" /\ stack # <<>>
    /\ stack[Len(stack)].i >= 2
    /\ stack[Len(stack)].positions \in unsolved_fields
    /\ stack[Len(stack)].candidates[stack[Len(stack)].i - 1]
          \in Candidates(stack[Len(stack)].positions)

\* the innermost frame stands at line 152: its for loop has no candidate left
\* (none to begin with, or all tried) and it is about to return False
ReturnsFalse ==
    /\ pc = "search" /\ ret = "loop" /\ stack # <<>>
    /\ stack[Len(stack)].i > Len(stack[Len(stack)].candidates)

\* C12 (Failed frames leave no trace): whenever an invocation of _solve returns
\* False, the candidate sets, the unsolved set and the working grid equal their
\* values at the moment that invocation was entered.
FailedFramesLeaveNoTrace ==
    ReturnsFalse => store = stack[Len(stack)].entered

\* C12 witness: a frame returns False after trying two or more candidates,
\* each of which was placed, searched below and taken back
FailedFramesWitness ==
    /\ ReturnsFalse
    /\ Len(stack[Len(stack)].candidates) >= 2
    /\ store = stack[Len(stack)].entered

\* digit d stands in some cell of row / column / box u of the working grid
RowFields == [u \in 0..8 |-> {f \in 0..80 : Row(f) = u}]
ColumnFields == [u \in 0..8 |-> {f \in 0..80 : Col(f) = u}]
BoxFields == [u \in 0..8 |-> {f \in 0..80 : Box(f) = u}]
InRow(u, d) == \E f \in RowFields[u] : solution[f] = d
InColumn(u, d) == \E f \in ColumnFields[u] : solution[f] = d
InBox(u, d) == \E f \in BoxFields[u] : solution[f] = d

\* a digit is absent from a unit's candidate set iff the unit holds it
CandidateSetsMatchGrid ==
    \A u \in 0..8 : \A d \in 1..9 :
        /\ d \notin row_chances[u] <=> InRow(u, d)
        /\ d \notin column_chances[u] <=> InColumn(u, d)
        /\ d \notin box_chances[u] <=> InBox(u, d)

\* C13 (Candidate-set invariant): between the operations of seeding and of the
\* search, on givens that do not conflict, a digit is absent from the candidate
\* set of a row, column or box iff some cell of that unit holds the digit in
\* the working grid.
CandidateSetInvariant ==
    (cur >= 1 /\ pc \in {"seed", "search", "returned"} /\ ~Conflicting(puzzle))
    => CandidateSetsMatchGrid

\* C13 witness: deep in a backtracking search, with a second candidate placed
\* after the first was taken back
CandidateSetWitness ==
    /\ pc = "search" /\ ret = "call" /\ puzzle = Multi /\ ~Conflicting(puzzle)
    /\ Len(stack) >= 2 /\ stack[Len(stack)].i >= 2
    /\ CandidateSetsMatchGrid

\* the cells of the working grid that hold 0
ZeroCells == {f \in 0..80 : solution[f] = 0}

\* C14 (Unsolved-set invariant): after every step of seeding and of the search
\* (and after a seeding that failed), the unsolved set is exactly the set of
\* (row, column, box) triples of the cells whose working-grid value is 0, and
\* its size is the number of those cells.
UnsolvedSetInvariant ==
    InSolve =>
        /\ unsolved_fields = {<<Row(f), Col(f), Box(f)>> : f \in ZeroCells}
        /\ Cardinality(unsolved_fields) = Cardinality(ZeroCells)

\* C14 witness: the search has taken a placement back, and the cell is again
\* both zero in the grid and a member of the unsolved set
UnsolvedSetWitness ==
    /\ pc = "search" /\ ret = "loop" /\ puzzle = Hard /\ stack # <<>>
    /\ stack[Len(stack)].i >= 2
    /\ stack[Len(stack)].positions \in unsolved_fields
    /\ \E f \in ZeroCells : stack[Len(stack)].positions = <<Row(f), Col(f), Box(f)>>

\* _solve stands at line 133, about to select among a non-empty unsolved set
Selecting == pc = "search" /\ ret = "call" /\ unsolved_fields # {}

\* what the selection of line 133 returns in the current state, the order in
\* which its scan meets the unsolved positions, and their candidate counts
Selected ==
    _choose_next_unsolved(row_chances, column_chances, box_chances,
                          unsolved_fields, set_order, list_order)
Scan == Iterate(unsolved_fields, set_order)
Count(k) == Cardinality(Candidates(Scan[k]))

\* C15 (Selection heuristic), as claimed: whenever the unsolved set is not
\* empty, selection returns an unsolved position with its candidate set, and
\* that position is either the first of the scan with 0 or 1 candidates, or no
\* position has fewer than 2 and it has the smallest count, the earliest
\* met among equals.
SelectionHeuristic ==
    Selecting =>
        /\ Selected # None
        /\ Selected[1] \in unsolved_fields
        /\ {Selected[2][j] : j \in 1..Len(Selected[2])} = Candidates(Selected[1])
        /\ Len(Selected[2]) = Cardinality(Candidates(Selected[1]))
        /\ \E k \in 1..Len(Scan) :
              /\ Scan[k] = Selected[1]
              /\ \/ Count(k) < 2 /\ \A j \in 1..(k - 1) : Count(j) >= 2
                 \/ /\ \A j \in 1..Len(Scan) : Count(j) >= 2 /\ Count(k) <= Count(j)
                    /\ \A j \in 1..(k - 1) : Count(j) > Count(k)

\* the innermost frame, and the slot of the working grid a position stands for
Top == stack[Len(stack)]
Slot(p) == p[1] * 9 + p[2]

\* the indices of frame k's candidate list that have been placed so far: up to
\* i, or up to i - 1 while the innermost frame stands at the head of its loop
Tried(k) ==
    IF k = Len(stack) /\ ret = "loop"
    THEN 1..(stack[k].i - 1)
    ELSE 1..stack[k].i

\* C16 (Candidate order), as claimed: within a frame the candidates are placed
\* in ascending numeric order; no digit is placed while a smaller candidate of
\* the same frame has not yet been tried.
CandidateOrderAscending ==
    pc = "search" =>
        \A k \in 1..Len(stack) :
            \A b \in Tried(k) : \A a \in 1..Len(stack[k].candidates) :
                stack[k].candidates[a] < stack[k].candidates[b] => a < b

\* C16, amended: within a frame the candidates are placed in the order of the
\* list that selection returned (the runtime's iteration order of the candidate
\* set, each digit once): a new frame starts at the first element of a
\* duplicate-free list of the position's candidates; the digit placed is the
\* i-th of the list, into an empty slot; and i moves on by exactly one, only
\* when the digit placed before has been taken back.
CandidateOrderListed ==
    [][pc = "search" =>
        /\ Len(stack') = Len(stack) + 1 =>
              /\ SubSeq(stack', 1, Len(stack)) = stack
              /\ stack'[Len(stack')].i = 1
              /\ stack'[Len(stack')].positions \in unsolved_fields
              /\ {stack'[Len(stack')].candidates[j] :
                     j \in 1..Len(stack'[Len(stack')].candidates)}
                   = Candidates(stack'[Len(stack')].positions)
              /\ Len(stack'[Len(stack')].candidates)
                   = Cardinality(Candidates(stack'[Len(stack')].positions))
        /\ (ret = "loop" /\ ret' = "call") =>
              /\ stack' = stack
              /\ Top.i \in 1..Len(Top.candidates)
              /\ solution[Slot(Top.positions)] = 0
              /\ solution' = [solution EXCEPT ![Slot(Top.positions)] = Top.candidates[Top.i]]
        /\ (Len(stack') = Len(stack) /\ stack' # stack) =>
              /\ stack' = [stack EXCEPT ![Len(stack)].i = @ + 1]
              /\ solution[Slot(Top.positions)] = Top.candidates[Top.i]
              /\ solution' = [solution EXCEPT ![Slot(Top.positions)] = 0]
    ]_vars

\* C16 witness: the second candidate of a frame stands in the grid after the
\* first was taken back, and it is the smaller of the two
CandidateOrderWitness ==
    /\ pc = "search" /\ ret = "call" /\ stack # <<>>
    /\ Top.i = 2
    /\ solution[Slot(Top.positions)] = Top.candidates[2]
    /\ Top.candidates[2] < Top.candidates[1]

\* C17 (Atomic place), as claimed: a step in which _set_field is called (a
\* given is seeded, or the search places a candidate) and which changes any of
\* the structures changes all of them, the three candidate families, the
\* unsolved set and the working grid, and does not fail; a call that fails
\* leaves all of them as they were.
AtomicPlace ==
    [][(pc \in {"seed", "search"} /\ ret \in {"call", "loop"} /\ store' # store)
        => /\ pc' # "raised"
           /\ row_chances' # row_chances
           /\ column_chances' # column_chances
           /\ box_chances' # box_chances
           /\ unsolved_fields' # unsolved_fields
           /\ solution' # solution
    ]_vars

\* the _solve invocations that have been entered and have not returned: the
\* frames on the stack, and the invocation just called that has no frame yet
ActiveInvocations == Len(stack) + (IF ret = "call" THEN 1 ELSE 0)

\* the depth of the recursion: the invocations nested in the outermost one
RecursionDepth == ActiveInvocations - 1

\* the cells the search has filled: non-zero in the working grid, not given
FilledBeyondGivens ==
    Cardinality({f \in 0..80 : solution[f] # 0 /\ f \notin GivenFields(puzzle)})

\* while the innermost invocation runs, the depth is the number of cells
\* filled beyond the givens, and it never exceeds the number of cells the
\* puzzle left unsolved
DepthIsFilled ==
    (cur >= 1 /\ pc = "search") =>
        /\ ret \in {"call", "loop"} => RecursionDepth = FilledBeyondGivens
        /\ RecursionDepth <= 81 - Cardinality(GivenFields(puzzle))

\* C18 (Termination and depth), as claimed: on an 81-character input of digits
\* whose givens do not conflict, a solve call that has ended has ended in
\* Solved (a grid is returned) or Exhausted (the "not solvable" failure), and
\* during the search the recursion depth is the number of cells filled beyond
\* the givens, at most the number of initially unsolved cells.
TerminationAndDepth ==
    (cur >= 1 /\ WellFormed(puzzle) /\ ~Conflicting(puzzle)) =>
        /\ SolveEnded => (pc = "returned" \/ error = "ValueError:unsolvable")
        /\ DepthIsFilled

\* the innermost frame stands at line 136, about to place its next candidate
AboutToPlace ==
    /\ pc = "search" /\ ret = "loop" /\ stack # <<>>
    /\ Top.i <= Len(Top.candidates)

\* C19 (Search never violates place's precondition): every _set_field the
\* search issues, for the first candidate of a frame and for every later one,
\* targets a position that is in the unsolved set with a digit that is in the
\* row, the column and the box candidate set of that position; and no run ends
\* with a removal failing (KeyError, IndexError) inside the search: such a
\* failure only ever comes from seeding, with no frame entered.
SearchPlacesLegally ==
    /\ AboutToPlace =>
          /\ Top.positions \in unsolved_fields
          /\ Top.candidates[Top.i] \in row_chances[Top.positions[1]]
          /\ Top.candidates[Top.i] \in column_chances[Top.positions[2]]
          /\ Top.candidates[Top.i] \in box_chances[Top.positions[3]]
          /\ _set_field(Current, Top.positions, Top.candidates[Top.i]).raised = "none"
    /\ (pc = "raised" /\ error \in {"KeyError", "IndexError"}) =>
          (stack = <<>> /\ ret = "call" /\ field < Len(puzzle))

\* C19 witness: a frame is about to place its second or a later candidate,
\* the earlier ones having been placed and taken back, and the place is legal
SearchPlacesWitness ==
    /\ AboutToPlace
    /\ Top.i >= 2
    /\ Top.positions \in unsolved_fields
    /\ Top.candidates[Top.i] \in Candidates(Top.positions)
    /\ Len(stack) >= 2

\* the laws of the mapping on the indices 0..80: the triple is (index div 9,
\* index mod 9, 3 * (row div 3) + column div 3); no two indices share a
\* triple; every row, column and box has exactly 9 indices; and the slot
\* row * 9 + column is the index itself
MappingLaws ==
    /\ \A f \in 0..80 :
          /\ _positions(f)[1] = f \div 9
          /\ _positions(f)[2] = f % 9
          /\ _positions(f)[3] = 3 * (_positions(f)[1] \div 3) + (_positions(f)[2] \div 3)
          /\ _positions(f)[3] = Box(f)
          /\ Slot(_positions(f)) = f
    /\ \A f \in 0..80 : \A h \in 0..80 : _positions(f) = _positions(h) => f = h
    /\ \A u \in 0..8 :
          /\ Cardinality({f \in 0..80 : _positions(f)[1] = u}) = 9
          /\ Cardinality({f \in 0..80 : _positions(f)[2] = u}) = 9
          /\ Cardinality({f \in 0..80 : _positions(f)[3] = u}) = 9

\* C20 (Position mapping): the mapping obeys the laws above, and the slot
\* that place writes for the triple of an index is that index: while a puzzle
\* is seeded, every given met so far stands in the working grid at its own
\* index, and every frame's placed candidate stands at the slot of its triple,
\* which is an index whose triple is the frame's position.
PositionMapping ==
    /\ MappingLaws
    /\ (cur >= 1 /\ pc = "seed") =>
          \A f \in 0..80 :
              (f < field /\ IsGiven(puzzle[f + 1])) => solution[f] = int(puzzle[f + 1])
    /\ (cur >= 1 /\ pc = "search") =>
          \A k \in 1..Len(stack) :
              /\ Slot(stack[k].positions) \in 0..80
              /\ _positions(Slot(stack[k].positions)) = stack[k].positions
              /\ (k < Len(stack) \/ ret # "loop") =>
                    solution[Slot(stack[k].positions)] = stack[k].candidates[stack[k].i]

\* C20 witness: seeding has written the given of index 40 (row 4, column 4,
\* box 4) into slot 40 of the working grid
PositionMappingWitness ==
    /\ cur >= 1 /\ pc = "seed" /\ field = 41
    /\ Len(puzzle) = 81 /\ IsGiven(puzzle[41])
    /\ _positions(40) = <<4, 4, 4>>
    /\ solution[Slot(_positions(40))] = int(puzzle[41])

====
